---- MODULE Spec2Model ----
(***************************************************************************)
(* Model of the novoalignCS alignment glue of bcbio-nextgen:               *)
(*   bcbio/ngsalign/novoalignCS.py  (align_bam, align_pipe, align,         *)
(*                                   _novoalignCS_args_from_config)        *)
(*   bcbio/pipeline/alignment.py    (TOOLS, align_to_sort_bam,             *)
(*                                   _align_from_bam, _align_from_fastq,   *)
(*                                   _align_from_fastq_pipe)               *)
(* The state is the file system the operations act on, the set of paths    *)
(* placed by a committed transaction, and the record of the last call.     *)
(***************************************************************************)
EXTENDS Integers, Sequences, FiniteSets, TLC

VARIABLES fs, promoted, last

vars == <<fs, promoted, last>>

(***************************************************************************)
(* Bounds of the model.                                                    *)
(***************************************************************************)
\* longest multiple_mappers string drawn as an input
MaxLen == 3
\* largest file size drawn as an input
MaxSize == 2
\* most reads of a FASTQ file drawn as an input
MaxReads == 3
\* most calls of _remove_read_number on one input
MaxCalls == 3
\* longest resources.novoalignCS.options list drawn as an input
MaxOpts == 2

(***************************************************************************)
(* Python values.  A str on which the code works character by character    *)
(* is a sequence of one-character strings; other strings are atoms.        *)
(***************************************************************************)
Absent == [kind |-> "absent"]
PyNone == [kind |-> "none"]
PyBool(b) == [kind |-> "bool", val |-> b]
PyInt(n) == [kind |-> "int", val |-> n]
PyStr(s) == [kind |-> "str", val |-> s]
PyList(l) == [kind |-> "list", val |-> l]

\* dict.get(key, default): the default when the key is absent
Get(v, default) == IF v.kind = "absent" THEN default ELSE v

\* "".join(chars): the atom spelled by a sequence of characters
RECURSIVE Cat(_)
Cat(s) == IF s = <<>> THEN "" ELSE Head(s) \o Cat(Tail(s))

\* sep.join(words) for a sequence of atoms
RECURSIVE Join(_, _)
Join(sep, ws) ==
    IF ws = <<>> THEN ""
    ELSE IF Len(ws) = 1 THEN ws[1]
    ELSE ws[1] \o sep \o Join(sep, Tail(ws))

Digits == <<"0", "1", "2", "3", "4", "5", "6", "7", "8", "9">>

\* str(n) for a non-negative int
RECURSIVE IntStr(_)
IntStr(n) == IF n < 10 THEN Digits[n + 1] ELSE IntStr(n \div 10) \o Digits[(n % 10) + 1]

\* str(x) for a str or an int
Str(x) == IF x.kind = "str" THEN Cat(x.val) ELSE IntStr(x.val)

\* str.lower(), one character
LowerChar(c) ==
    CASE c = "S" -> "s"
      [] c = "O" -> "o"
      [] c = "L" -> "l"
      [] c = "I" -> "i"
      [] c = "D" -> "d"
      [] OTHER -> c

\* str.lower()
Lower(s) == [i \in 1..Len(s) |-> LowerChar(s[i])]

\* str.split(): the maximal runs of non-whitespace characters, as atoms
RECURSIVE SplitFrom(_, _, _)
SplitFrom(s, word, acc) ==
    IF s = <<>> THEN (IF word = <<>> THEN acc ELSE Append(acc, Cat(word)))
    ELSE IF Head(s) = " "
         THEN SplitFrom(Tail(s), <<>>, IF word = <<>> THEN acc ELSE Append(acc, Cat(word)))
         ELSE SplitFrom(Tail(s), Append(word, Head(s)), acc)

Split(s) == SplitFrom(s, <<>>, <<>>)

(***************************************************************************)
(* _novoalignCS_args_from_config                                           *)
(***************************************************************************)
SOLiD == <<"S", "O", "L", "i", "D">>

\* lines 102-107: the quality flags; quality_format, when configured, is a str
QualFlags(config, need_quality) ==
    IF ~need_quality THEN <<>>
    ELSE LET qual_format == Lower(Get(config.algorithm.quality_format, PyStr(<<>>)).val)
         IN  <<"-F", IF qual_format = SOLiD THEN "XSQ" ELSE "BFAST">>

\* a faulty variant of lines 108-115: a string policy is never used
MultiFlagsIgnoreString(config) ==
    LET multi_mappers == Get(config.algorithm.multiple_mappers, PyNone)
    IN  IF multi_mappers.kind = "bool" /\ multi_mappers.val = TRUE
        THEN <<"-r", "Random">>
        ELSE <<"-r", "None">>

\* lines 108-115: the multi-mapper flags
MultiFlags(config) ==
    LET multi_mappers == Get(config.algorithm.multiple_mappers, PyNone)
        multi_flag == IF multi_mappers.kind = "bool" /\ multi_mappers.val = TRUE
                      THEN <<"R", "a", "n", "d", "o", "m">>
                      ELSE IF multi_mappers.kind = "str"
                      THEN multi_mappers.val
                      ELSE <<"N", "o", "n", "e">>
    IN  <<"-r">> \o Split(multi_flag)

\* a faulty variant of lines 116-122: the options are added to the defaults
ExtraArgsMerged(config) ==
    LET options == Get(config.resources.novoalignCS.options, PyNone)
    IN  IF options.kind = "none" THEN <<"-o", "FullNW", "-k">>
        ELSE <<"-o", "FullNW", "-k">> \o [i \in 1..Len(options.val) |-> Str(options.val[i])]

\* lines 116-122: the built-in defaults, or the configured options in their place
ExtraArgs(config) ==
    LET options == Get(config.resources.novoalignCS.options, PyNone)
    IN  IF options.kind = "none" THEN <<"-o", "FullNW", "-k">>
        ELSE [i \in 1..Len(options.val) |-> Str(options.val[i])]

\* lines 99-123
novoalignCS_args_from_config(config, need_quality) ==
    QualFlags(config, need_quality) \o MultiFlags(config) \o ExtraArgs(config)

(***************************************************************************)
(* Configurations drawn as inputs.                                         *)
(***************************************************************************)
MMChars == {"r", "5", " "}

Strings(chars, n) == UNION {[1..k -> chars] : k \in 0..n}

\* every spelling of SOLiD in upper and lower case
SolidSpellings ==
    {s \in [1..5 -> {"S", "s", "O", "o", "L", "l", "I", "i", "D", "d"}] :
        Lower(s) = <<"s", "o", "l", "i", "d">>}

QualityFormats ==
    {Absent, PyStr(<<>>), PyStr(<<"i", "l", "l", "u", "m", "i", "n", "a">>)}
      \cup {PyStr(s) : s \in SolidSpellings}

MultipleMappers ==
    {Absent, PyNone, PyBool(TRUE), PyBool(FALSE), PyInt(1)}
      \cup {PyStr(s) : s \in Strings(MMChars, MaxLen)}

OptionItems == {PyStr(<<"-", "a">>), PyStr(<<"-", "b">>), PyInt(5)}

OptionLists == {Absent, PyNone} \cup {PyList(l) : l \in Strings(OptionItems, MaxOpts)}

MkConfig(qf, mm, opts, cores, mem, ff) ==
    [algorithm |-> [quality_format |-> qf, multiple_mappers |-> mm,
                    num_cores |-> cores, file_format |-> ff],
     resources |-> [novoalignCS |-> [options |-> opts, memory |-> mem]]]

DefaultConfig == MkConfig(Absent, Absent, Absent, Absent, Absent, Absent)

(***************************************************************************)
(* _novoalignCS_args_from_config as a state machine: the initial state     *)
(* holds the arguments of a call, the one action applies the function.     *)
(***************************************************************************)
InitArgs ==
    /\ fs = <<>>
    /\ promoted = {}
    /\ \E qf \in QualityFormats, mm \in MultipleMappers, opts \in OptionLists,
          need_quality \in BOOLEAN :
           last = [op |-> "args_call", config |-> MkConfig(qf, mm, opts, Absent, Absent, Absent),
                   need_quality |-> need_quality]

\* a call of _novoalignCS_args_from_config
ArgsFromConfig ==
    /\ last.op = "args_call"
    /\ last' = [op |-> "args", config |-> last.config, need_quality |-> last.need_quality,
                ret |-> novoalignCS_args_from_config(last.config, last.need_quality)]
    /\ UNCHANGED <<fs, promoted>>

NextArgs == ArgsFromConfig

SpecArgs == InitArgs /\ [][NextArgs]_vars

(***************************************************************************)
(* Properties of _novoalignCS_args_from_config (checked under SpecArgs).   *)
(***************************************************************************)
ArgsReturned == last.op = "args"

\* number of leading quality flags of a returned list
QualLen == IF last.need_quality THEN 2 ELSE 0

\* number of trailing extra arguments the configuration asks for
ExtraLen ==
    LET o == last.config.resources.novoalignCS.options
    IN  IF o.kind = "list" THEN Len(o.val) ELSE 3

\* the multi-mapper part and the extra part of a returned list
MultiPart == SubSeq(last.ret, QualLen + 1, Len(last.ret) - ExtraLen)
ExtraPart == SubSeq(last.ret, Len(last.ret) - ExtraLen + 1, Len(last.ret))

\* the words of a string, stated by position: a word starts at a non-blank
\* character that is first or follows a blank, and runs to the last non-blank
\* character before the next blank
WordStarts(s) == {i \in 1..Len(s) : s[i] # " " /\ (i = 1 \/ s[i - 1] = " ")}
WordEnd(s, i) ==
    CHOOSE j \in i..Len(s) :
        /\ \A k \in i..j : s[k] # " "
        /\ (j = Len(s) \/ s[j + 1] = " ")
WordsOf(s) ==
    [k \in 1..Cardinality(WordStarts(s)) |->
        LET i == CHOOSE i \in WordStarts(s) :
                     Cardinality({j \in WordStarts(s) : j < i}) = k - 1
        IN  Cat(SubSeq(s, i, WordEnd(s, i)))]

\* C8 as stated: True renders -r Random; any string, the empty one and one
\* with spaces included, is rendered verbatim as the single argument after
\* -r; any other value renders -r None.
C8_StringVerbatimSingleArg ==
    ArgsReturned =>
        LET mm == last.config.algorithm.multiple_mappers
        IN  MultiPart = (IF mm.kind = "bool" /\ mm.val = TRUE THEN <<"-r", "Random">>
                         ELSE IF mm.kind = "str" THEN <<"-r", Cat(mm.val)>>
                         ELSE <<"-r", "None">>)

\* C8 amended: True renders -r Random; a string value is split on whitespace
\* and its words follow -r in order, one argument each (no argument for an
\* empty or blank string, the string itself when it is one word); any other
\* value renders -r None.
C8_MultiMapperPolicy ==
    ArgsReturned =>
        LET mm == last.config.algorithm.multiple_mappers
        IN  MultiPart = (IF mm.kind = "bool" /\ mm.val = TRUE THEN <<"-r", "Random">>
                         ELSE IF mm.kind = "str" THEN <<"-r">> \o WordsOf(mm.val)
                         ELSE <<"-r", "None">>)

\* a two-word policy string has been rendered as two arguments after -r
C8_Witness ==
    /\ ArgsReturned
    /\ last.config.algorithm.multiple_mappers = PyStr(<<"r", " ", "5">>)
    /\ MultiPart = <<"-r", "r", "5">>

\* C9: configured options (any list, the empty one included) are rendered
\* exactly, in order, in place of the built-in defaults -o FullNW -k; absent
\* options render exactly the defaults; the two are never merged.
C9_ExtraArgsOverride ==
    ArgsReturned =>
        LET o == last.config.resources.novoalignCS.options
        IN  /\ Len(last.ret) = QualLen + Len(MultiPart) + ExtraLen
            /\ Len(MultiPart) >= 1 /\ MultiPart[1] = "-r"
            /\ IF o.kind = "list"
               THEN /\ ExtraPart = [i \in 1..Len(o.val) |-> Str(o.val[i])]
                    /\ \A i \in 1..Len(last.ret) : last.ret[i] # "FullNW"
               ELSE ExtraPart = <<"-o", "FullNW", "-k">>

\* a configured two-element list has replaced the defaults
C9_Witness ==
    /\ ArgsReturned
    /\ last.config.resources.novoalignCS.options = PyList(<<PyStr(<<"-", "a">>), PyStr(<<"-", "b">>)>>)
    /\ ExtraPart = <<"-a", "-b">>

\* C10: when quality flags are rendered, a quality_format that equals SOLiD
\* ignoring case renders -F XSQ, and every other string, or none configured,
\* renders -F BFAST.
C10_QualityFormatCaseInsensitive ==
    (last.op = "args" /\ last.need_quality) =>
        LET qf == last.config.algorithm.quality_format
        IN  SubSeq(last.ret, 1, 2) =
                (IF qf.kind = "str" /\ Lower(qf.val) = Lower(SOLiD)
                 THEN <<"-F", "XSQ">> ELSE <<"-F", "BFAST">>)

(***************************************************************************)
(* Files.  A path is a directory, a stem and an extension; the file system *)
(* maps the rendered path of each existing file to its size.               *)
(***************************************************************************)
Path(dir, stem, ext) == [dir |-> dir, stem |-> stem, ext |-> ext]

\* the path as it is written into a command line
Render(p) == p.dir \o "/" \o p.stem \o p.ext

\* os.path.splitext(p)[0]
SplitextPrefix(p) == p.dir \o "/" \o p.stem

Put(f, k, v) == [x \in (DOMAIN f) \cup {k} |-> IF x = k THEN v ELSE f[x]]
Remove(f, k) == [x \in (DOMAIN f) \ {k} |-> f[x]]

\* os.path.exists
Exists(f, p) == Render(p) \in DOMAIN f

\* utils.file_exists: the file is there
file_exists(f, p) == Exists(f, p)

(***************************************************************************)
(* The transactional output guard, file_transaction(out_file).             *)
(***************************************************************************)
\* the temporary path a transaction on out_file hands to its block
TxPath(out_file) == Path(out_file.dir \o "/tx", out_file.stem, out_file.ext)

\* leaving the block: the temporary file is moved to out_file when the block
\* did not raise, and deleted when it did
TransactionExit(f, prom, out_file, err) ==
    LET tx == Render(TxPath(out_file))
    IN  IF err = ""
        THEN IF tx \in DOMAIN f
             THEN [fs |-> Remove(Put(f, Render(out_file), f[tx]), tx),
                   promoted |-> prom \cup {Render(out_file)}]
             ELSE [fs |-> f, promoted |-> prom]
        ELSE [fs |-> Remove(f, tx), promoted |-> prom]

(***************************************************************************)
(* The pipeline executor, do.run(cmd, descr, data, checks).  A command is  *)
(* a sequence of stages joined by pipes, a stage a sequence of words.      *)
(***************************************************************************)
\* position of a word in a stage, 0 when it is not there
IndexOf(stage, w) ==
    IF \E i \in 1..Len(stage) : stage[i] = w
    THEN CHOOSE i \in 1..Len(stage) : stage[i] = w /\ \A j \in 1..(i - 1) : stage[j] # w
    ELSE 0

\* the file a stage writes, "" when it writes to its standard output only
StageFile(stage) ==
    IF IndexOf(stage, ">") # 0 THEN stage[IndexOf(stage, ">") + 1]
    ELSE IF stage[1] = "novosort" /\ IndexOf(stage, "-o") # 0
    THEN stage[IndexOf(stage, "-o") + 1]
    ELSE IF stage[1] = "samtools" /\ stage[2] = "sort"
    THEN stage[Len(stage)] \o ".bam"
    ELSE ""

\* the file the terminal stage of a command writes
Sink(cmd) == StageFile(cmd[Len(cmd)])

\* do.file_nonempty and do.file_reasonable_size
FileNonempty(file) == [check |-> "file_nonempty", file |-> file, input |-> ""]
FileReasonableSize(file, input) ==
    [check |-> "file_reasonable_size", file |-> file, input |-> input]

\* smallest output, as a fraction 1/ReasonableScale of the input, that passes
ReasonableScale == 2

CheckPasses(f, c) ==
    IF c.check = "file_nonempty"
    THEN c.file \in DOMAIN f /\ f[c.file] > 0
    ELSE IF c.input \notin DOMAIN f THEN TRUE
    ELSE c.file \in DOMAIN f /\ f[c.file] * ReasonableScale >= f[c.input]

\* what the processes of one run do: the exit status of the pipeline and
\* the size of the file its terminal stage leaves (-1: none)
Outcomes == [exit : {0, 1}, written : -1..MaxSize]

\* the run: the sink is written, a non-zero exit or a failed check raises
Run(f, cmd, checks, oc) ==
    LET sink == Sink(cmd)
        redirect == IndexOf(cmd[Len(cmd)], ">") # 0
        size == IF redirect /\ oc.written < 0 THEN 0 ELSE oc.written
        f1 == IF sink # "" /\ size >= 0 THEN Put(f, sink, size) ELSE f
    IN  [fs |-> f1,
         err |-> IF oc.exit # 0 THEN "CalledProcessError"
                 ELSE IF \E i \in 1..Len(checks) : ~CheckPasses(f1, checks[i])
                 THEN "IOError" ELSE ""]

(***************************************************************************)
(* Collaborators of novoalignCS.py                                         *)
(***************************************************************************)
\* config_utils.get_program(name, config)
get_program(name, config) == name

\* curdir_tmpdir(base_dir)
curdir_tmpdir(base_dir) == base_dir \o "/tmp"

\* alignprep.setup_combine(final_file, data): the per-chunk output
setup_combine(final_file, data) ==
    Path(final_file.dir \o "/split", final_file.stem \o "-" \o data.align_split,
         final_file.ext)

\* alignprep.split_namedpipe_cl(in_file, data): a named-pipe producer
split_namedpipe_cl(in_file, data) == "<(split " \o data.align_split \o " " \o in_file \o ")"

\* a faulty variant of line 21: the ID is the lane id
get_rg_info_lane_id(names) ==
    "@RG\\tID:" \o names.lane \o "\\tPL:" \o names.pl \o "\\tPU:" \o names.pu
        \o "\\tSM:" \o names.sample

\* get_rg_info(names)
get_rg_info(names) ==
    "@RG\\tID:" \o names.rg \o "\\tPL:" \o names.pl \o "\\tPU:" \o names.pu
        \o "\\tSM:" \o names.sample

(***************************************************************************)
(* novoalignCS.py: align_bam, align_pipe, align.  Each is an operator from *)
(* the file system, the arguments and the outcome of the processes it may  *)
(* start to the file system it leaves and what it returns or raises.       *)
(***************************************************************************)
\* with file_transaction(out_file) as tx_out_file: do.run(cmd, ..., checks)
GuardedRun(f, prom, out_file, cmd, checks, oc) ==
    LET r == Run(f, cmd, checks, oc)
        t == TransactionExit(r.fs, prom, out_file, r.err)
    IN  [fs |-> t.fs, promoted |-> t.promoted, err |-> r.err]

\* a faulty rendering of the command of align_bam: the last stage writes
\* the final path itself
align_bam_cmd_to_final(l) ==
    << <<l.novosort, "-c", l.num_cores, "-m", l.max_mem, "--compression", "0",
         "-n", "-t", l.work_dir, l.in_bam>>,
       <<l.novoalignCS, "-o", "SAM", "'" \o l.rg_info \o "'", "-d", l.ref_file,
         "-f", "/dev/stdin", "-F", l.file_format, "-c", l.num_cores,
         l.extra_novo_args>>,
       <<l.samtools, "view", "-b", "-S", "-u", "-">>,
       <<l.novosort, "-c", l.num_cores, "-m", l.max_mem, "-t", l.work_dir,
         "-o", l.out_file, "/dev/stdin">> >>

\* another faulty rendering of the command of align_bam: the input is not name-sorted
\* first, the aligner reads the input file itself
align_bam_cmd_no_namesort(l) ==
    << <<l.novoalignCS, "-o", "SAM", "'" \o l.rg_info \o "'", "-d", l.ref_file,
         "-f", l.in_bam, "-F", l.file_format, "-c", l.num_cores,
         l.extra_novo_args>>,
       <<l.samtools, "view", "-b", "-S", "-u", "-">>,
       <<l.novosort, "-c", l.num_cores, "-m", l.max_mem, "-t", l.work_dir,
         "-o", l.tx_out_file, "/dev/stdin">> >>

\* lines 46-53: the four stages of the realignment pipeline
align_bam_cmd(l) ==
    << <<l.novosort, "-c", l.num_cores, "-m", l.max_mem, "--compression", "0",
         "-n", "-t", l.work_dir, l.in_bam>>,
       <<l.novoalignCS, "-o", "SAM", "'" \o l.rg_info \o "'", "-d", l.ref_file,
         "-f", "/dev/stdin", "-F", l.file_format, "-c", l.num_cores,
         l.extra_novo_args>>,
       <<l.samtools, "view", "-b", "-S", "-u", "-">>,
       <<l.novosort, "-c", l.num_cores, "-m", l.max_mem, "-t", l.work_dir,
         "-o", l.tx_out_file, "/dev/stdin">> >>

\* line 55: the checks of align_bam
align_bam_checks(l) ==
    <<FileNonempty(l.tx_out_file), FileReasonableSize(l.tx_out_file, l.in_bam)>>

\* a faulty variant of line 42: the pipeline runs whatever exists
align_bam_skip_never(f, out_file) == FALSE

\* line 42: nothing is run when out_file exists
align_bam_skip(f, out_file) == file_exists(f, out_file)

\* lines 23-56
align_bam(f, prom, in_bam, ref_file, names, align_dir, config, oc) ==
    LET out_file == Path(align_dir, names.lane \o "-sort", ".bam")
        resources == config.resources.novoalignCS
        extra == novoalignCS_args_from_config(config, FALSE)
        l == [novosort |-> get_program("novosort", config),
              novoalignCS |-> get_program("novoalignCS", config),
              samtools |-> get_program("samtools", config),
              num_cores |-> Str(Get(config.algorithm.num_cores, PyInt(1))),
              max_mem |-> Str(Get(resources.memory, PyStr(<<"4", "G">>))),
              extra_novo_args |-> Join(" ", extra),
              file_format |-> Str(Get(config.algorithm.file_format,
                                      PyStr(<<"B", "A", "M", "P", "E">>))),
              work_dir |-> curdir_tmpdir(align_dir),
              in_bam |-> in_bam, ref_file |-> ref_file,
              rg_info |-> get_rg_info(names),
              out_file |-> Render(out_file),
              tx_out_file |-> Render(TxPath(out_file))]
    IN  IF align_bam_skip(f, out_file)
        THEN [fs |-> f, promoted |-> prom, err |-> "", ret |-> Render(out_file),
              runs |-> 0, tx |-> 0, cmd |-> <<>>, out_file |-> Render(out_file),
              tx_file |-> Render(TxPath(out_file))]
        ELSE LET cmd == align_bam_cmd(l)
                 g == GuardedRun(f, prom, out_file, cmd, align_bam_checks(l), oc)
             IN  [fs |-> g.fs, promoted |-> g.promoted, err |-> g.err,
                  ret |-> IF g.err = "" THEN Render(out_file) ELSE "",
                  runs |-> 1, tx |-> 1, cmd |-> cmd, out_file |-> Render(out_file),
              tx_file |-> Render(TxPath(out_file))]

\* a faulty rendering of the command of align_pipe: the sort is dropped
\* and the conversion writes the output
align_pipe_cmd_no_sort(l) ==
    << <<l.novoalignCS, "-o", "SAM", "'" \o l.rg_info \o "'", "-d", l.ref_file,
         "-f", l.fastq_file, l.pair_file, "-c", l.num_cores, l.extra_novo_args>>,
       <<l.samtools, "view", "-b", "-S", "-u", "-", ">", l.tx_out_file>> >>

\* lines 89-93: the stages of the streaming alignment pipeline
align_pipe_cmd(l) ==
    << <<l.novoalignCS, "-o", "SAM", "'" \o l.rg_info \o "'", "-d", l.ref_file,
         "-f", l.fastq_file, l.pair_file, "-c", l.num_cores, l.extra_novo_args>>,
       <<l.samtools, "view", "-b", "-S", "-u", "-">>,
       <<l.samtools, "sort", "-@", l.num_cores, "-m", l.max_mem, "-",
         l.tx_out_prefix>> >>

\* a faulty variant of line 95: the non-empty check is left out
align_pipe_checks_no_nonempty(l) ==
    <<FileReasonableSize(l.tx_out_file, l.fastq_file)>>

\* line 95: the checks of align_pipe
align_pipe_checks(l) ==
    <<FileNonempty(l.tx_out_file), FileReasonableSize(l.tx_out_file, l.fastq_file)>>

\* final_file = None
NoPath == Path("", "", "")

\* line 85: nothing is run when out_file exists, or when the combined final
\* file of a split alignment exists
align_pipe_skip(f, out_file, final_file) ==
    ~(~file_exists(f, out_file)
        /\ (final_file = NoPath \/ ~file_exists(f, final_file)))

\* a faulty variant of line 96: work_bam is the combined final file
align_pipe_work_bam_final(lane_file, out_file) == Render(lane_file)

\* line 96: data["work_bam"] = out_file
align_pipe_work_bam(lane_file, out_file) == Render(out_file)

\* lines 65-97
align_pipe(f, prom, fastq_file, pair_file, ref_file, names, align_dir, data, oc) ==
    LET lane_file == Path(align_dir, names.lane \o "-sort", ".bam")
        split == data.align_split # ""
        final_file == IF split THEN lane_file ELSE NoPath
        out_file == IF split THEN setup_combine(lane_file, data) ELSE lane_file
        data1 == IF split THEN [data EXCEPT !.combine = Render(lane_file)] ELSE data
        fastq1 == IF split THEN split_namedpipe_cl(fastq_file, data1) ELSE fastq_file
        pair1 == IF split /\ pair_file # "" THEN split_namedpipe_cl(pair_file, data1)
                 ELSE pair_file
        config == data1.config
        resources == config.resources.novoalignCS
        extra == novoalignCS_args_from_config(config, TRUE)
        l == [samtools |-> get_program("samtools", config),
              novoalignCS |-> get_program("novoalignCS", config),
              num_cores |-> Str(Get(config.algorithm.num_cores, PyInt(1))),
              max_mem |-> Str(Get(resources.memory, PyStr(<<"1", "G">>))),
              extra_novo_args |-> Join(" ", extra),
              rg_info |-> get_rg_info(names),
              fastq_file |-> fastq1, pair_file |-> pair1, ref_file |-> ref_file,
              work_dir |-> curdir_tmpdir("."),
              out_file |-> Render(out_file),
              tx_out_file |-> Render(TxPath(out_file)),
              tx_out_prefix |-> SplitextPrefix(TxPath(out_file))]
        done == [data1 EXCEPT !.work_bam = align_pipe_work_bam(lane_file, out_file)]
    IN  IF align_pipe_skip(f, out_file, final_file)
        THEN [fs |-> f, promoted |-> prom, err |-> "", ret |-> done,
              runs |-> 0, tx |-> 0, cmd |-> <<>>, out_file |-> Render(out_file),
              tx_file |-> Render(TxPath(out_file))]
        ELSE LET cmd == align_pipe_cmd(l)
                 g == GuardedRun(f, prom, out_file, cmd, align_pipe_checks(l), oc)
             IN  [fs |-> g.fs, promoted |-> g.promoted, err |-> g.err,
                  ret |-> IF g.err = "" THEN done ELSE data,
                  runs |-> 1, tx |-> 1, cmd |-> cmd, out_file |-> Render(out_file),
              tx_file |-> Render(TxPath(out_file))]

\* line 135: nothing is run when out_file exists
align_skip(f, out_file) == file_exists(f, out_file)

\* lines 136-146: the command line of the non-piped alignment
align_cl(config, args, extra_args, rg_name, ref_file, fastq_file, pair_file) ==
    <<get_program("novoalignCS", config)>> \o args \o extra_args \o <<"-o", "SAM">>
        \o (IF rg_name # "" THEN <<"'@RG\\tID:" \o rg_name \o "'">> ELSE <<>>)
        \o <<"-d", ref_file, "-f", fastq_file>>
        \o (IF pair_file # "" THEN <<pair_file>> ELSE <<>>)

\* lines 129-148
align(f, prom, fastq_file, pair_file, ref_file, out_base, align_dir, config, extra_args, names, oc) ==
    LET rg_name == IF "rg" \in DOMAIN names THEN names.rg ELSE ""
        out_file == Path(align_dir, out_base, ".sam")
        args == novoalignCS_args_from_config(config, TRUE)
    IN  IF align_skip(f, out_file)
        THEN [fs |-> f, promoted |-> prom, err |-> "", ret |-> Render(out_file),
              runs |-> 0, tx |-> 0, cmd |-> <<>>, out_file |-> Render(out_file),
              tx_file |-> Render(TxPath(out_file))]
        ELSE LET cl == align_cl(config, args, extra_args, rg_name, ref_file,
                                fastq_file, pair_file)
                 cmd == <<cl \o <<">", Render(TxPath(out_file))>> >>
                 g == GuardedRun(f, prom, out_file, cmd, <<>>, oc)
             IN  [fs |-> g.fs, promoted |-> g.promoted, err |-> g.err,
                  ret |-> IF g.err = "" THEN Render(out_file) ELSE "",
                  runs |-> 1, tx |-> 1, cmd |-> cmd, out_file |-> Render(out_file),
              tx_file |-> Render(TxPath(out_file))]

(***************************************************************************)
(* The alignment calls as a state machine.                                 *)
(***************************************************************************)
AlignDir == "work/align/S1"
InBam == "in/S1.bam"
Fastq1 == "in/S1_1.csfastq"
Fastq2 == "in/S1_2.csfastq"
RefFile == "ref/hg19"

Names == {[lane |-> "L1", rg |-> "rg1", pl |-> "solid", pu |-> "unit1", sample |-> "S1"]}

CustomConfig ==
    MkConfig(PyStr(SOLiD), PyStr(<<"r", " ", "5">>), PyList(<<PyStr(<<"-", "a">>)>>),
             PyInt(12), PyStr(<<"8", "G">>), Absent)

AlignConfigs == {DefaultConfig, CustomConfig}

Data(align_split, config) ==
    [align_split |-> align_split, config |-> config, work_bam |-> "", combine |-> ""]

\* no process was started
NoOutcome == [exit |-> 0, written |-> -1]

OutcomesIf(runs) == IF runs THEN Outcomes ELSE {NoOutcome}

Init ==
    /\ fs = [p \in {InBam, Fastq1, Fastq2} |-> MaxSize]
    /\ promoted = {}
    /\ last = [op |-> "init"]

\* what a call leaves in the state
Called(op, r, oc, split, lane) ==
    /\ fs' = r.fs
    /\ promoted' = r.promoted
    /\ last' = [op |-> op, out_file |-> r.out_file, tx_file |-> r.tx_file,
                split |-> split, lane |-> lane,
                lane_existed |-> Render(Path(AlignDir, lane \o "-sort", ".bam")) \in DOMAIN fs,
                existed |-> r.out_file \in DOMAIN fs,
                pre_size |-> IF r.out_file \in DOMAIN fs THEN fs[r.out_file] ELSE -1,
                err |-> r.err, ret |-> r.ret, runs |-> r.runs, tx |-> r.tx,
                cmd |-> r.cmd, oc |-> oc]

AlignBam ==
    \E names \in Names, config \in AlignConfigs :
        LET out_file == Path(AlignDir, names.lane \o "-sort", ".bam")
        IN  \E oc \in OutcomesIf(~align_bam_skip(fs, out_file)) :
                Called("align_bam",
                       align_bam(fs, promoted, InBam, RefFile, names, AlignDir, config, oc),
                       oc, "", names.lane)

AlignPipe ==
    \E names \in Names, config \in AlignConfigs, split \in {"", "1-2"},
       pair_file \in {"", Fastq2} :
        \E oc \in OutcomesIf(align_pipe(fs, promoted, Fastq1, pair_file, RefFile, names,
                                        AlignDir, Data(split, config), NoOutcome).runs = 1) :
            Called("align_pipe",
                   align_pipe(fs, promoted, Fastq1, pair_file, RefFile, names, AlignDir,
                              Data(split, config), oc),
                   oc, split, names.lane)

Align ==
    \E names \in Names \cup {PyNone}, config \in AlignConfigs, pair_file \in {"", Fastq2} :
        \E oc \in OutcomesIf(align(fs, promoted, Fastq1, pair_file, RefFile, "L1", AlignDir,
                                   config, <<>>, names, NoOutcome).runs = 1) :
            Called("align",
                   align(fs, promoted, Fastq1, pair_file, RefFile, "L1", AlignDir, config,
                         <<>>, names, oc),
                   oc, "", "L1")

Next == AlignBam \/ AlignPipe \/ Align

Spec == Init /\ [][Next]_vars

(***************************************************************************)
(* Properties of the alignment calls (checked under Spec).                 *)
(***************************************************************************)
IsAlign == last.op \in {"align_bam", "align_pipe", "align"}

\* the path the call returned: the return value, or work_bam of the record
Returned == IF last.op = "align_pipe" THEN last.ret.work_bam ELSE last.ret

\* <align_dir>/<lane>-sort.bam
LaneSortBam == AlignDir \o "/" \o last.lane \o "-sort.bam"

\* C1: resume. When the output file of align_bam, align_pipe or align exists
\* at the call, no command is run, no transaction is opened, the file is left
\* as it was and the call returns its path (align_pipe: as work_bam of the
\* record); a split align_pipe also runs nothing when the combined file exists.
C1_Resume ==
    IsAlign =>
        /\ last.existed =>
              /\ last.runs = 0 /\ last.tx = 0 /\ last.err = ""
              /\ last.out_file \in DOMAIN fs /\ fs[last.out_file] = last.pre_size
              /\ last.tx_file \notin DOMAIN fs
              /\ Returned = last.out_file
        /\ (last.op = "align_pipe" /\ last.split # "" /\ last.lane_existed) =>
              /\ last.runs = 0 /\ last.tx = 0 /\ last.err = ""
              /\ LaneSortBam \in DOMAIN fs

\* a call found its output, left by an earlier call, and returned it
C1_Witness ==
    /\ last.op = "align_bam" /\ last.existed /\ last.runs = 0
    /\ last.ret = last.out_file /\ last.out_file \in promoted

\* C2: atomicity under failure. A call that starts with its output absent and
\* whose pipeline exits non-zero, or whose non-empty check fails, raises,
\* leaves no file at the output path and no temporary file; the output path
\* comes to exist only by the promotion of a transaction that did not raise.
C2_AtomicFailure ==
    (IsAlign /\ ~last.existed) =>
        /\ (last.runs = 1 /\ last.oc.exit # 0) => last.err # ""
        /\ (last.runs = 1 /\ last.op # "align" /\ last.oc.written <= 0) => last.err # ""
        /\ last.err # "" => last.out_file \notin DOMAIN fs
        /\ last.tx_file \notin DOMAIN fs
        /\ last.out_file \in DOMAIN fs =>
               last.runs = 1 /\ last.err = "" /\ last.out_file \in promoted

\* a pipeline wrote its temporary output and failed: nothing is left
C2_Witness ==
    /\ last.op = "align_pipe" /\ ~last.existed /\ last.runs = 1
    /\ last.oc.exit # 0 /\ last.oc.written > 0 /\ last.err = "CalledProcessError"
    /\ last.out_file \notin DOMAIN fs

\* C3 as stated: a file promoted by align_bam, align_pipe or align is never
\* a zero-byte file.
C3_PromotedNeverEmpty ==
    \A p \in promoted : p \in DOMAIN fs /\ fs[p] > 0

\* the outputs of align_bam and align_pipe
BamOutputs ==
    {Render(Path(AlignDir, n.lane \o "-sort", ".bam")) : n \in Names}
      \cup {Render(setup_combine(Path(AlignDir, n.lane \o "-sort", ".bam"), Data(s, DefaultConfig))) :
              n \in Names, s \in {"1-2"}}

\* C3 amended: a file promoted by align_bam or align_pipe is never a
\* zero-byte file, its non-empty check being evaluated on the temporary
\* output before promotion; align evaluates no check and may promote a
\* zero-byte file.
C3_PromotedBamNeverEmpty ==
    /\ \A p \in promoted \cap BamOutputs : p \in DOMAIN fs /\ fs[p] > 0
    /\ (last.op \in {"align_bam", "align_pipe"} /\ last.runs = 1 /\ last.err = "") =>
           /\ last.oc.written > 0
           /\ last.out_file \in promoted /\ fs[last.out_file] = last.oc.written

\* align_pipe promoted the output of a run that succeeded
C3_Witness ==
    /\ last.op = "align_pipe" /\ last.runs = 1 /\ last.err = ""
    /\ last.out_file \in promoted /\ fs[last.out_file] > 0

\* C5 as stated: whenever align_pipe returns, work_bam is the final output
\* path and a file placed there by a committed transaction exists, also when
\* a split alignment is skipped because the combined file exists.
C5_WorkBamIsFinalPath ==
    (last.op = "align_pipe" /\ last.err = "") =>
        /\ last.ret.work_bam = LaneSortBam
        /\ last.ret.work_bam \in DOMAIN fs
        /\ last.ret.work_bam \in promoted

\* a split alignment was skipped because the combined file exists while the
\* per-chunk output does not
SkippedForCombined ==
    last.split # "" /\ last.lane_existed /\ ~last.existed

\* C5 amended: whenever align_pipe returns, work_bam is the path its
\* transaction targets: the final output path when align_split is not set,
\* the per-chunk path of setup_combine when it is. A file placed there by a
\* committed transaction exists, except when a split alignment was skipped
\* because the combined file exists while the per-chunk output does not.
C5_WorkBamIsTransactionTarget ==
    (last.op = "align_pipe" /\ last.err = "") =>
        /\ last.ret.work_bam = last.out_file
        /\ last.split = "" => last.ret.work_bam = LaneSortBam
        /\ last.split # "" => last.ret.work_bam # LaneSortBam
        /\ ~SkippedForCombined =>
               last.ret.work_bam \in DOMAIN fs /\ last.ret.work_bam \in promoted
        /\ SkippedForCombined =>
               last.runs = 0 /\ last.ret.work_bam \notin DOMAIN fs

\* a split alignment was skipped for the combined file: work_bam names the
\* per-chunk path, where no file is
C5_Witness ==
    /\ last.op = "align_pipe" /\ last.err = "" /\ SkippedForCombined
    /\ last.ret.work_bam = last.out_file /\ last.ret.work_bam \notin DOMAIN fs

\* C6 as stated: align_pipe renders exactly 2 stages, alignment then sort,
\* the sort writing the temporary output of the transaction.
C6_TwoStages ==
    (last.op = "align_pipe" /\ last.runs = 1) =>
        /\ Len(last.cmd) = 2
        /\ last.cmd[1][1] = "novoalignCS"
        /\ last.cmd[2][1] = "samtools" /\ last.cmd[2][2] = "sort"
        /\ Sink(last.cmd) = last.tx_file

\* C6 amended: align_pipe renders exactly 3 stages chained by pipes:
\* alignment, conversion to BAM (samtools view), then sort; only the sort
\* writes a file, the temporary output of the transaction and never the final
\* path, and without align_split the final path is <align_dir>/<lane>-sort.bam.
C6_ThreeStages ==
    (last.op = "align_pipe" /\ last.runs = 1) =>
        /\ Len(last.cmd) = 3
        /\ last.cmd[1][1] = "novoalignCS"
        /\ last.cmd[2][1] = "samtools" /\ last.cmd[2][2] = "view"
        /\ IndexOf(last.cmd[2], "-b") # 0
        /\ last.cmd[3][1] = "samtools" /\ last.cmd[3][2] = "sort"
        /\ StageFile(last.cmd[1]) = "" /\ StageFile(last.cmd[2]) = ""
        /\ Sink(last.cmd) = last.tx_file
        /\ last.tx_file # last.out_file
        /\ last.split = "" => last.out_file = LaneSortBam
        /\ last.err = "" => last.ret.work_bam = last.out_file

\* a streaming alignment without align_split ran and its output was promoted
C6_Witness ==
    /\ last.op = "align_pipe" /\ last.runs = 1 /\ last.split = "" /\ last.err = ""
    /\ Len(last.cmd) = 3 /\ LaneSortBam \in promoted

None == "None"

\* line 25: the fields of an NgsTool
NgsToolFields == <<"align_fn", "bam_align_fn", "galaxy_loc_file", "remap_index_fn">>

\* NgsTool(*args): a namedtuple takes one argument for each of its fields
NgsTool(args) ==
    IF Len(args) # Len(NgsToolFields) THEN [err |-> "TypeError"]
    ELSE [err |-> "", align_fn |-> args[1], bam_align_fn |-> args[2],
          galaxy_loc_file |-> args[3], remap_index_fn |-> args[4]]

\* lines 31-46: the arguments of each entry of TOOLS, as written
ToolArgs ==
    [bowtie |-> <<"bowtie.align", None, "bowtie.galaxy_location_file", None>>,
     bowtie2 |-> <<"bowtie2.align", None, "bowtie2.galaxy_location_file",
                   "bowtie2.remap_index_fn">>,
     bwa |-> <<"bwa.align_pipe", "bwa.align_bam", "bwa.galaxy_location_file", None>>,
     mosaik |-> <<"mosaik.align", None, "mosaik.galaxy_location_file", None>>,
     novoalign |-> <<"novoalign.align_pipe", "novoalign.align_bam",
                     "novoalign.galaxy_location_file", "novoalign.remap_index_fn">>,
     novoalignCS |-> <<"novoalignCS.align", "novoalignCS.align_pipe",
                       "novoalignCS.align_bam", "novoalignCS.galaxy_location_file",
                       "novoalignCS.remap_index_fn", "novoalignCS.can_pipe">>,
     tophat |-> <<"tophat.align", None, "bowtie2.galaxy_location_file",
                  "bowtie2.remap_index_fn">>,
     samtools |-> <<None, None, "sam_fa_indices.loc", None>>,
     star |-> <<"star.align", None, None, "star.remap_index_fn">>,
     tophat2 |-> <<"tophat.align", None, "bowtie2.galaxy_location_file",
                   "bowtie2.remap_index_fn">>]

TOOLS == [t \in DOMAIN ToolArgs |-> NgsTool(ToolArgs[t])]

\* what importing alignment.py raises: the error of the first entry of TOOLS
\* that cannot be built, "" when there is none
ImportError ==
    IF \E t \in DOMAIN TOOLS : TOOLS[t].err # "" THEN "TypeError" ELSE ""

Raise(err, msg) == [err |-> err, msg |-> msg, called |-> ""]
Call(fn) == [err |-> "", msg |-> "", called |-> fn]

\* lines 71-77
align_from_fastq_pipe(aligner) ==
    IF aligner \notin DOMAIN TOOLS THEN Raise("KeyError", aligner)
    ELSE IF "pipe_align_fn" \notin DOMAIN TOOLS[aligner]
    THEN Raise("AttributeError", "pipe_align_fn")
    ELSE IF TOOLS[aligner].pipe_align_fn = None
    THEN Raise("NotImplementedError", "Do not yet support piped alignment with " \o aligner)
    ELSE Call(TOOLS[aligner].pipe_align_fn)

\* lines 79-90
align_from_bam(aligner, data) ==
    IF data.align_split # ""
    THEN Raise("AssertionError", "Do not handle split alignments with BAM yet")
    ELSE IF aligner \notin DOMAIN TOOLS THEN Raise("KeyError", aligner)
    ELSE IF TOOLS[aligner].bam_align_fn = None
    THEN Raise("NotImplementedError", "Do not yet support BAM alignment with " \o aligner)
    ELSE Call(TOOLS[aligner].bam_align_fn)

\* lines 92-107: align_fn is called as it is found
align_from_fastq(aligner) ==
    IF aligner \notin DOMAIN TOOLS THEN Raise("KeyError", aligner)
    ELSE IF TOOLS[aligner].align_fn = None
    THEN Raise("TypeError", "'NoneType' object is not callable")
    ELSE Call(TOOLS[aligner].align_fn)

\* fastq1.endswith(".bam")
IsBam(fastq1) == fastq1 = InBam

\* lines 50-69
align_to_sort_bam(fastq1, fastq2, aligner, data) ==
    IF IsBam(fastq1) THEN align_from_bam(aligner, data) ELSE align_from_fastq(aligner)

\* a call into alignment.py: the module is imported first
Dispatched(entry, fastq1, fastq2, aligner, data) ==
    IF ImportError # "" THEN Raise(ImportError, "__new__() takes exactly 5 arguments")
    ELSE IF entry = "align_to_sort_bam" THEN align_to_sort_bam(fastq1, fastq2, aligner, data)
    ELSE align_from_fastq_pipe(aligner)

Aligners == (DOMAIN ToolArgs) \cup {"unknown"}

Entries == {"align_to_sort_bam", "_align_from_fastq_pipe"}

InitDispatch ==
    /\ fs = [p \in {InBam, Fastq1, Fastq2} |-> MaxSize]
    /\ promoted = {}
    /\ \E entry \in Entries, aligner \in Aligners, fastq1 \in {InBam, Fastq1},
          fastq2 \in {"", Fastq2}, split \in {"", "1-2"} :
           last = [op |-> "dispatch_call", entry |-> entry, aligner |-> aligner,
                   fastq1 |-> fastq1, fastq2 |-> fastq2, split |-> split]

\* the call is made
Dispatch ==
    /\ last.op = "dispatch_call"
    /\ LET r == Dispatched(last.entry, last.fastq1, last.fastq2, last.aligner,
                           Data(last.split, DefaultConfig))
       IN  last' = [op |-> "dispatch", entry |-> last.entry, aligner |-> last.aligner,
                    fastq1 |-> last.fastq1, fastq2 |-> last.fastq2, split |-> last.split,
                    err |-> r.err, msg |-> r.msg, called |-> r.called]
    /\ UNCHANGED <<fs, promoted>>

NextDispatch == Dispatch

SpecDispatch == InitDispatch /\ [][NextDispatch]_vars

\* the operation the table must hold for a call: its position among the
\* arguments of an entry, 0 for the piped alignment no entry has a field for
Operation ==
    IF last.entry = "_align_from_fastq_pipe" THEN 0
    ELSE IF IsBam(last.fastq1) THEN 2 ELSE 1

\* the table registers no operation for the tool and input kind of the call
Unregistered ==
    \/ last.aligner \notin DOMAIN ToolArgs
    \/ Operation = 0
    \/ ToolArgs[last.aligner][Operation] = None

\* C4: a tool and input kind with no operation registered in the table (the
\* function is None, or the tool is not in the table) yields the unsupported-
\* operation error naming the operation and the tool, and no other error.
C4_UnsupportedOperation ==
    (last.op = "dispatch" /\ Unregistered /\ last.split = "") =>
        /\ last.err = "NotImplementedError"
        /\ last.msg = (IF Operation = 0 THEN "Do not yet support piped alignment with "
                       ELSE IF Operation = 2 THEN "Do not yet support BAM alignment with "
                       ELSE "Do not yet support alignment with ") \o last.aligner

(***************************************************************************)
(* The read group each alignment call hands to the aligner: the initial    *)
(* state holds the sample-name record of a call on a fresh output          *)
(* directory, one action for each alignment function makes the call.       *)
(***************************************************************************)
\* sample-name records; no field is validated, so empty and blank-holding
\* values are drawn too
RGNames ==
    [lane : {"L1", "L2"}, rg : {"rg1", ""}, pl : {"solid", ""},
     pu : {"unit1", "unit 1"}, sample : {"S1", ""}]

InitRG ==
    /\ fs = [p \in {InBam, Fastq1, Fastq2} |-> MaxSize]
    /\ promoted = {}
    /\ \E fn \in {"align_bam", "align_pipe", "align"}, names \in RGNames \cup {PyNone} :
           /\ (names = PyNone) => fn = "align"
           /\ last = [op |-> "rg_call", fn |-> fn, names |-> names]

\* what a call leaves in the state, with the sample-name record it was given
CalledWithNames(r) ==
    /\ fs' = r.fs
    /\ promoted' = r.promoted
    /\ last' = [op |-> last.fn, names |-> last.names, err |-> r.err, runs |-> r.runs,
                cmd |-> r.cmd]

RGAlignBam ==
    /\ last.op = "rg_call" /\ last.fn = "align_bam"
    /\ \E oc \in Outcomes :
           CalledWithNames(align_bam(fs, promoted, InBam, RefFile, last.names, AlignDir,
                                     DefaultConfig, oc))

RGAlignPipe ==
    /\ last.op = "rg_call" /\ last.fn = "align_pipe"
    /\ \E oc \in Outcomes, split \in {"", "1-2"} :
           CalledWithNames(align_pipe(fs, promoted, Fastq1, Fastq2, RefFile, last.names,
                                      AlignDir, Data(split, DefaultConfig), oc))

RGAlign ==
    /\ last.op = "rg_call" /\ last.fn = "align"
    /\ \E oc \in Outcomes :
           CalledWithNames(align(fs, promoted, Fastq1, Fastq2, RefFile, "L1", AlignDir,
                                 DefaultConfig, <<>>, last.names, oc))

NextRG == RGAlignBam \/ RGAlignPipe \/ RGAlign

SpecRG == InitRG /\ [][NextRG]_vars

\* the stage of the rendered command that runs the aligner
AlignStage == last.cmd[IF last.op = "align_bam" THEN 2 ELSE 1]

\* the word that follows -o SAM in the aligner's stage
AfterSam == AlignStage[IndexOf(AlignStage, "SAM") + 1]

\* an alignment call rendered a command
Rendered == last.op \in {"align_bam", "align_pipe", "align"} /\ last.runs = 1

\* C11 as stated: for align_bam, align_pipe and align and every sample-name
\* record, the aligner's stage receives a read group whose ID is the lane
\* id, PL the platform, PU the platform unit and SM the sample id.
C11_ReadGroupFromLane ==
    (Rendered /\ last.names # PyNone) =>
        AfterSam = "'@RG\\tID:" \o last.names.lane \o "\\tPL:" \o last.names.pl
                       \o "\\tPU:" \o last.names.pu \o "\\tSM:" \o last.names.sample \o "'"

\* C11 amended: for align_bam and align_pipe and every sample-name record
\* holding rg, pl, pu and sample, the aligner's stage receives a read group
\* whose ID is the rg field (not the lane id), PL the pl field, PU the pu
\* field and SM the sample field, each passed through as it is; align passes
\* a read group holding the ID alone, from rg, and none when no record is
\* given or its rg is empty.
C11_ReadGroupFromRg ==
    Rendered =>
        IF last.op \in {"align_bam", "align_pipe"}
        THEN /\ AlignStage[1] = "novoalignCS"
             /\ AfterSam = "'@RG\\tID:" \o last.names.rg \o "\\tPL:" \o last.names.pl
                               \o "\\tPU:" \o last.names.pu \o "\\tSM:" \o last.names.sample \o "'"
        ELSE /\ AlignStage[1] = "novoalignCS"
             /\ AfterSam = (IF last.names # PyNone /\ last.names.rg # ""
                            THEN "'@RG\\tID:" \o last.names.rg \o "'" ELSE "-d")

\* a realignment was rendered for a record whose rg differs from its lane
\* and whose platform unit holds a blank: the read group carries them as given
C11_Witness ==
    /\ last.op = "align_bam" /\ last.runs = 1
    /\ last.names.lane = "L1" /\ last.names.rg = "rg1" /\ last.names.pu = "unit 1"
    /\ AfterSam = "'@RG\\tID:rg1\\tPL:solid\\tPU:unit 1\\tSM:S1'"

(***************************************************************************)
(* alignment.py: _remove_read_number.  Here a file is the sequence of the  *)
(* read names of its records (the sequence and quality lines are copied as *)
(* they are); a file of no records is a zero-byte file.                    *)
(***************************************************************************)
\* name.endswith(suffix)
EndsWith(name, suffix) ==
    /\ Len(name) >= Len(suffix)
    /\ SubSeq(name, Len(name) - Len(suffix) + 1, Len(name)) = suffix

\* name.rsplit("/", 1)[0]: the name up to its last slash, all of it when it
\* has none
RSplitHead(name) ==
    IF \E i \in 1..Len(name) : name[i] = "/"
    THEN LET k == CHOOSE i \in 1..Len(name) :
                      name[i] = "/" /\ \A j \in (i + 1)..Len(name) : name[j] # "/"
         IN  SubSeq(name, 1, k - 1)
    ELSE name

\* os.path.getsize(path) == 0
ZeroSize(f, p) == f[Render(p)] = <<>>

\* line 130: the removal is skipped when the first read name has no /1
SkipsRemoval(reads) == reads # <<>> /\ ~EndsWith(reads[1], <<"/", "1">>)

\* lines 129-135: what the loop writes to the temporary file
WrittenReads(reads) ==
    IF SkipsRemoval(reads) THEN <<>>
    ELSE [i \in 1..Len(reads) |-> RSplitHead(reads[i])]

\* lines 119-120
SafePath(in_file, sam_file) == Path(sam_file.dir, in_file.stem \o "-safe", in_file.ext)

\* lines 109-136
remove_read_number(f, prom, in_file, sam_file) ==
    LET out_file == SafePath(in_file, sam_file)
    IN  IF Exists(f, out_file) /\ ZeroSize(f, out_file)
        THEN [fs |-> f, promoted |-> prom, ret |-> Render(in_file)]
        ELSE IF ~Exists(f, out_file)
        THEN LET reads == f[Render(in_file)]
                 f1 == Put(f, Render(TxPath(out_file)), WrittenReads(reads))
                 t == TransactionExit(f1, prom, out_file, "")
             IN  [fs |-> t.fs, promoted |-> t.promoted,
                  ret |-> IF SkipsRemoval(reads) THEN Render(in_file) ELSE Render(out_file)]
        ELSE [fs |-> f, promoted |-> prom, ret |-> Render(out_file)]

\* read names drawn as inputs
ReadNames ==
    {<<"r", "/", "1">>, <<"r", "/", "2">>, <<"r">>, <<"a", "/", "b", "/", "1">>}

\* FASTQ files drawn as inputs, the empty one among them
Fastqs == UNION {[1..k -> ReadNames] : k \in 0..MaxReads}

InFastq == Path("in", "S1_1", ".fastq")
SamFile == Path(AlignDir, "L1", ".sam")

InitReadNumber ==
    /\ \E reads \in Fastqs : fs = [p \in {Render(InFastq)} |-> reads]
    /\ promoted = {}
    /\ last = [op |-> "remove_read_number_call", calls |-> 0, ret |-> "", first_ret |-> ""]

\* a call of _remove_read_number(in_file, sam_file), with the same arguments
\* each time
RemoveReadNumber ==
    /\ last.calls < MaxCalls
    /\ LET r == remove_read_number(fs, promoted, InFastq, SamFile)
       IN  /\ fs' = r.fs
           /\ promoted' = r.promoted
           /\ last' = [op |-> "remove_read_number", calls |-> last.calls + 1,
                       ret |-> r.ret,
                       first_ret |-> IF last.calls = 0 THEN r.ret ELSE last.first_ret]

NextReadNumber == RemoveReadNumber

SpecReadNumber == InitReadNumber /\ [][NextReadNumber]_vars

\* C12: for every input FASTQ (an empty one, one whose first read name does
\* not end in /1, one whose first read name does), a call repeated with the
\* same arguments returns the path the first call returned, and a zero-byte
\* -safe file is on disk only when the earlier call skipped the removal and
\* returned the input file.
C12_StableAcrossCalls ==
    (last.op = "remove_read_number" /\ last.calls >= 2) =>
        /\ last.ret = last.first_ret
        /\ (Exists(fs, SafePath(InFastq, SamFile)) /\ ZeroSize(fs, SafePath(InFastq, SamFile)))
               => last.first_ret = Render(InFastq)

====
